---------------------------- MODULE Spec2Model ----------------------------
(***************************************************************************)
(* Model of the bridge gap resonator FDTD scripts:                         *)
(*   src/examples/meep/bridge_gap_resonator.py            (hand-written)   *)
(*   src/crates/meep-export/examples/bridge_gap_resonator_meep.py          *)
(*                                                        (generated)      *)
(*                                                                         *)
(* run_simulation is a sequential procedure: its position is pc, and each  *)
(* action is one statement group of it (run_reference is inlined).  The    *)
(* field solver is an external collaborator: it is modelled as a           *)
(* deterministic stub whose script (when the decay criterion triggers,     *)
(* which flux arrays the monitors report) is drawn in Init.                *)
(*                                                                         *)
(* Numbers: lengths are integers in um; the configurations used keep every *)
(* derived length an integer, so Python's true division is exact integer   *)
(* division on them.  Frequencies and flux ratios are exact rationals      *)
(* <<num, den>> in lowest terms.  A decibel value is kept symbolically.    *)
(***************************************************************************)
EXTENDS Integers, Sequences, FiniteSets, TLC

VARIABLES
    pc,             \* position in run_simulation
    cfg,            \* the configuration mapping handed to run_simulation
    stub,           \* script of the deterministic stub solver
    refSim,         \* the simulation object of run_reference
    mainSim,        \* the simulation object of run_simulation
    freqs,          \* run_reference's result: the monitor's frequency grid
    incident_flux,  \* run_reference's result: the incident flux spectrum
    refl_data,      \* run_reference's result: the captured flux state
    field_data,     \* {"t": [], "ez_gap": []} filled by capture_field
    fluxes,         \* refl_flux / trans_flux read from the main monitors
    calc,           \* s11, s21 and the results mapping
    archive,        \* content of results.npz, None until written
    sample          \* geometry probe: a point and the material composited there

vars == <<pc, cfg, stub, refSim, mainSim, freqs, incident_flux, refl_data,
          field_data, fluxes, calc, archive, sample>>

\* Python's None / a present value, as a sequence of at most one element.
Nothing == <<>>
Some(x) == <<x>>

\* ------------------------------------------------------------------ bounds
\* Longest solver run the model follows, in solver time units.
MaxTime == 3
\* Largest flux magnitude the stub solver reports.
MaxFlux == 2

\* ------------------------------------------------------- program constants
MM_TO_UM == 1000
\* Number of frequency points of every flux monitor (add_flux(fcen, fwidth, 50, ...)).
NFREQ == 50
\* dB value stored for a bin whose S-parameter is 0.
SENTINEL_DB == -100
\* stop_when_fields_decayed(50, mp.Ez, pt, 1e-6): window, and 1/decay_by.
DECAY_DT == 50
DECAY_BY_INV == 1000000
\* Speed of light in m/s ("f_real / 299.792 THz" for a 1 um length unit).
C_LIGHT == 299792458

\* ---------------------------------------------------------------- numbers
Abs(x) == IF x < 0 THEN -x ELSE x

Max(a, b) == IF a >= b THEN a ELSE b

Min(a, b) == IF a <= b THEN a ELSE b

RECURSIVE GCD(_, _)
GCD(a, b) == IF b = 0 THEN a ELSE GCD(b, a % b)

\* The rational n/d (d # 0) in lowest terms with a positive denominator.
Rat(n, d) ==
    LET g == GCD(Abs(n), Abs(d))
        s == IF d < 0 THEN -1 ELSE 1
    IN  <<(s * n) \div g, (s * d) \div g>>

RatInt(n) == <<n, 1>>

RatMul(p, q) == Rat(p[1] * q[1], p[2] * q[2])

RatAdd(p, q) == Rat(p[1] * q[2] + q[1] * p[2], p[2] * q[2])

RatAbs(p) == <<Abs(p[1]), p[2]>>

\* Python's a / b on numbers: ZeroDivisionError (the marker 1/0) when b is 0.
ZeroDivisionError == <<1, 0>>

Div(a, b) == IF b = 0 THEN ZeroDivisionError ELSE Rat(a, b)

\* x / 2 and the other fixed fractions the scripts take of a length.
Half(x) == x \div 2

Frac(x, n, d) == (x * n) \div d

\* ---------------------------------------------------------- configuration
\* config: the module-level mapping, after the mm -> um conversion.
DefaultCfg ==
    [ gap             |-> Frac(MM_TO_UM, 25, 10),
      bridge_w        |-> 8 * MM_TO_UM,
      bridge_t        |-> Frac(MM_TO_UM, 5, 10),
      pad_length      |-> 25 * MM_TO_UM,
      substrate_r     |-> 15 * MM_TO_UM,
      substrate_h     |-> Frac(MM_TO_UM, 96, 10),
      wall_thickness  |-> 2 * MM_TO_UM,
      resolution      |-> 5,
      pml_thickness   |-> 2000,
      freq_center_ghz |-> RatInt(5),
      freq_width_ghz  |-> RatInt(4) ]

\* Configurations run_simulation is called with: the default one and the
\* default one with a single entry replaced (the command line replaces
\* resolution and the two frequencies; a caller may pass any mapping).
Configs ==
    {DefaultCfg}
    \cup {[DefaultCfg EXCEPT !.gap = v]            : v \in {-4000, 5000}}
    \cup {[DefaultCfg EXCEPT !.bridge_w = v]       : v \in {0, 4000}}
    \cup {[DefaultCfg EXCEPT !.bridge_t = v]       : v \in {0, -500}}
    \cup {[DefaultCfg EXCEPT !.pad_length = v]     : v \in {0, 10000}}
    \cup {[DefaultCfg EXCEPT !.substrate_r = v]    : v \in {0, -15000}}
    \cup {[DefaultCfg EXCEPT !.substrate_h = v]    : v \in {0, 4800}}
    \cup {[DefaultCfg EXCEPT !.wall_thickness = v] : v \in {15000, 1000}}
    \cup {[DefaultCfg EXCEPT !.resolution = v]     : v \in {10}}
    \cup {[DefaultCfg EXCEPT !.pml_thickness = v]  : v \in {1000}}
    \cup {[DefaultCfg EXCEPT !.freq_center_ghz = v]: v \in {RatInt(1), RatInt(7)}}
    \cup {[DefaultCfg EXCEPT !.freq_width_ghz = v] : v \in {RatInt(2)}}

\* f_ghz / 300.0
ghz_to_meep(f_ghz) == RatMul(f_ghz, <<1, 300>>)

\* f_meep * 300.0
meep_to_ghz(f_meep) == RatMul(f_meep, <<300, 1>>)

\* --------------------------------------------------------------- geometry
copper == "metal"
fr4 == "fr4"
air == "air"

Block(c, s, m) == [kind |-> "Block", center |-> c, size |-> s, material |-> m]

Cylinder(c, r, h, m) ==
    [kind |-> "Cylinder", center |-> c, radius |-> r, height |-> h, material |-> m]

\* Faulty variant of build_geometry: the inner air cylinder is appended before the
\* outer dielectric cylinder.
build_geometry_cutout_first(c) ==
    LET gap == c.gap
        bridge_w == c.bridge_w
        bridge_t == c.bridge_t
        pad_length == c.pad_length
        substrate_r == c.substrate_r
        substrate_h == c.substrate_h
        wall_t == c.wall_thickness
    IN  << Block(<<-Half(gap) - Half(pad_length), 0, Half(bridge_t)>>,
                 <<pad_length, bridge_w, bridge_t>>, copper),
           Block(<<Half(gap) + Half(pad_length), 0, Half(bridge_t)>>,
                 <<pad_length, bridge_w, bridge_t>>, copper),
           Block(<<0, 0, Frac(bridge_t, 125, 100)>>,
                 <<gap + 4 * MM_TO_UM, Frac(bridge_w, 6, 10), Frac(bridge_t, 1, 2)>>,
                 copper),
           Cylinder(<<0, 0, -Half(substrate_h)>>, substrate_r - wall_t,
                    substrate_h + 100, air),
           Cylinder(<<0, 0, -Half(substrate_h)>>, substrate_r, substrate_h, fr4) >>

\* build_geometry(cfg) of the hand-written script: the ordered list of appends.
build_geometry(c) ==
    LET gap == c.gap
        bridge_w == c.bridge_w
        bridge_t == c.bridge_t
        pad_length == c.pad_length
        left_pad_center == <<-Half(gap) - Half(pad_length), 0, Half(bridge_t)>>
        right_pad_center == <<Half(gap) + Half(pad_length), 0, Half(bridge_t)>>
        bridge_width == gap + 4 * MM_TO_UM
        bridge_height == Frac(bridge_t, 1, 2)
        bridge_y_size == Frac(bridge_w, 6, 10)
        substrate_r == c.substrate_r
        substrate_h == c.substrate_h
        wall_t == c.wall_thickness
    IN  << Block(left_pad_center, <<pad_length, bridge_w, bridge_t>>, copper),
           Block(right_pad_center, <<pad_length, bridge_w, bridge_t>>, copper),
           Block(<<0, 0, Frac(bridge_t, 125, 100)>>,
                 <<bridge_width, bridge_y_size, bridge_height>>, copper),
           Cylinder(<<0, 0, -Half(substrate_h)>>, substrate_r, substrate_h, fr4),
           Cylinder(<<0, 0, -Half(substrate_h)>>, substrate_r - wall_t,
                    substrate_h + 100, air) >>

\* build_geometry() of the generated script: literal primitives.
build_geometry_meep ==
    << Block(<<-13750, 0, 250>>, <<25000, 8000, 500>>, copper),
       Block(<<13750, 0, 250>>, <<25000, 8000, 500>>, copper),
       Block(<<0, 0, 625>>, <<6500, 4800, 250>>, copper),
       Cylinder(<<0, 0, 0>>, 15000, 9600, fr4),
       Cylinder(<<0, 0, 0>>, 13000, 10000, air) >>

\* Point p lies in primitive g (closed extents; a cylinder's axis is z).
Inside(p, g) ==
    IF g.kind = "Block"
    THEN \A i \in 1..3 : 2 * Abs(p[i] - g.center[i]) <= g.size[i]
    ELSE /\ g.radius >= 0
         /\ (p[1] - g.center[1]) * (p[1] - g.center[1])
            + (p[2] - g.center[2]) * (p[2] - g.center[2]) <= g.radius * g.radius
         /\ 2 * Abs(p[3] - g.center[3]) <= g.height

\* The solver's compositing: the last primitive of the list that contains the
\* point decides its material; default_material (air) where none does.
MaterialAt(geometry, p) ==
    LET hits == {i \in 1..Len(geometry) : Inside(p, geometry[i])}
    IN  IF hits = {} THEN air
        ELSE geometry[CHOOSE i \in hits : \A j \in hits : j <= i].material

\* ------------------------------------------------------- simulation setup
\* create_simulation(cfg): the mp.Simulation arguments, and fcen, fwidth.
create_simulation(c) ==
    LET pml == c.pml_thickness
        cell_x == 2 * (c.pad_length + Half(c.gap)) + 2 * pml + 4000
        cell_y == Max(c.bridge_w, 2 * c.substrate_r) + 2 * pml + 4000
        cell_z == c.substrate_h + c.bridge_t * 2 + 2 * pml + 4000
        fcen == ghz_to_meep(c.freq_center_ghz)
        fwidth == ghz_to_meep(c.freq_width_ghz)
    IN  [ cell_size        |-> <<cell_x, cell_y, cell_z>>,
          geometry         |-> build_geometry(c),
          sources          |-> << [ fcen      |-> fcen,
                                    fwidth    |-> fwidth,
                                    component |-> "Ez",
                                    center    |-> <<0, 0, Half(c.bridge_t)>>,
                                    size      |-> <<Frac(c.gap, 8, 10),
                                                    Frac(c.bridge_w, 5, 10), 0>> ] >>,
          pml_thickness    |-> pml,
          resolution       |-> c.resolution,
          default_material |-> air,
          fcen             |-> fcen,
          fwidth           |-> fwidth ]

\* sim.add_flux(fcen, fwidth, nfreq, mp.FluxRegion(center, size)): a monitor
\* with nothing loaded and nothing accumulated yet.
add_flux(fcen, fwidth, nfreq, center, size) ==
    [ fcen |-> fcen, fwidth |-> fwidth, nfreq |-> nfreq,
      center |-> center, size |-> size,
      minus |-> Nothing, dft |-> Nothing ]

\* setup_monitors(sim, cfg, fcen, fwidth): the reflection and transmission monitors.
setup_monitors(c, fcen, fwidth) ==
    LET gap == c.gap
        bridge_w == c.bridge_w
        bridge_t == c.bridge_t
    IN  [ refl  |-> add_flux(fcen, fwidth, NFREQ,
                             <<-Half(gap) - 1000, 0, Half(bridge_t)>>,
                             <<0, bridge_w, bridge_t * 3>>),
          trans |-> add_flux(fcen, fwidth, NFREQ,
                             <<Half(gap) + 1000, 0, Half(bridge_t)>>,
                             <<0, bridge_w, bridge_t * 3>>) ]

\* Faulty variant of reference_monitor: the monitor sits on the transmission side.
reference_monitor_shifted(c, fcen, fwidth) ==
    add_flux(fcen, fwidth, NFREQ,
             <<Half(c.gap) + 1000, 0, Half(c.bridge_t)>>,
             <<0, c.bridge_w, c.bridge_t * 3>>)

\* run_reference's own monitor, refl_fr.
reference_monitor(c, fcen, fwidth) ==
    LET gap == c.gap
        bridge_w == c.bridge_w
        bridge_t == c.bridge_t
    IN  add_flux(fcen, fwidth, NFREQ,
                 <<-Half(gap) - 1000, 0, Half(bridge_t)>>,
                 <<0, bridge_w, bridge_t * 3>>)

\* ------------------------------------------------------------ stub solver
\* A synthetic flux spectrum: len bins, odd bins carry a and even bins b.
FluxArray(f) == [k \in 1..f.len |-> IF k % 2 = 1 THEN f.a ELSE f.b]

\* Bin counts a stub reports for a monitor: the requested one, or one fewer.
Lens == {NFREQ - 1, NFREQ}

FluxVals == (-MaxFlux)..MaxFlux

Pattern(l, a, b) == [len |-> l, a |-> a, b |-> b]

\* Stubs that vary the flux values (runs stop after one time unit).
FluxStubs ==
    { [ refStop |-> 1, mainStop |-> 1, incident |-> i, refl |-> r, trans |-> t ] :
        i \in {Pattern(l, a, b) : l \in Lens, a \in FluxVals, b \in {0, MaxFlux}},
        r \in {Pattern(l, a, b) : l \in Lens, a \in FluxVals, b \in {0, MaxFlux}},
        t \in {Pattern(l, a, b) : l \in Lens, a \in FluxVals, b \in {0, MaxFlux}} }

\* Stubs that vary when the decay criterion triggers (0: never) and the bin
\* counts, with fixed flux values.
ProtocolStubs ==
    { [ refStop |-> rs, mainStop |-> ms,
        incident |-> Pattern(li, 2, 0), refl |-> Pattern(lr, -1, 1),
        trans |-> Pattern(lt, 1, 0) ] :
        rs \in 0..MaxTime, ms \in 0..MaxTime, li \in Lens, lr \in Lens, lt \in Lens }

Stubs(c) == IF c = DefaultCfg THEN FluxStubs \cup ProtocolStubs ELSE ProtocolStubs

\* sim.get_field_point(mp.Ez, pt) at solver time t: a complex value <<re, im>>.
get_field_point(t) == <<(IF t % 2 = 1 THEN 1 ELSE -1) * t, 1>>

\* mp.get_flux_freqs(monitor): n points from fcen - fwidth/2 to fcen + fwidth/2.
get_flux_freqs(m, n) ==
    [k \in 1..n |->
        RatAdd(RatAdd(m.fcen, RatMul(m.fwidth, <<-1, 2>>)),
               RatMul(m.fwidth, Rat(k - 1, Max(n - 1, 1))))]

\* mp.get_fluxes(monitor): the spectrum of what the monitor accumulated.
get_fluxes(m) == m.dft[1]

\* The flux state load_minus_flux_data stores: the data scaled by -1.
Negate(data) == [k \in 1..Len(data) |-> -data[k]]

\* Faulty variant of load_minus_flux_data: the data is stored without the sign change.
load_flux_data_unnegated(monitors, name, data) ==
    [monitors EXCEPT ![name].minus = Some(data)]

\* sim.load_minus_flux_data(monitors[name], data)
load_minus_flux_data(monitors, name, data) ==
    [monitors EXCEPT ![name].minus = Some(Negate(data))]

\* What a freed monitor may read as: zeros.
Zeroed(data) == [k \in 1..Len(data) |-> 0]

\* ---------------------------------------------------------- S-parameters
Sentinel == [tag |-> "const", arg |-> RatInt(SENTINEL_DB)]

\* 10 * np.log10(abs(s)), kept symbolically: 10 log10 of the rational arg.
TenLog10Abs(s) == [tag |-> "10log10", arg |-> RatAbs(s)]

\* zip(xs, ys): pairs up to the shorter list.
ZipLen(xs, ys) == Min(Len(xs), Len(ys))

\* Faulty variant of S11: the i != 0 guard is dropped.
S11_unguarded(refl_flux, incident) ==
    [k \in 1..ZipLen(refl_flux, incident) |-> Div(-refl_flux[k], incident[k])]

\* [-r / i if i != 0 else 0 for r, i in zip(refl_flux, incident_flux)]
S11(refl_flux, incident) ==
    [k \in 1..ZipLen(refl_flux, incident) |->
        IF incident[k] # 0 THEN Div(-refl_flux[k], incident[k]) ELSE RatInt(0)]

\* Faulty variant of S21: the ratio is taken the wrong way round.
S21_inverted(trans_flux, incident) ==
    [k \in 1..ZipLen(trans_flux, incident) |->
        IF incident[k] # 0 THEN Div(incident[k], trans_flux[k]) ELSE RatInt(0)]

\* [t / i if i != 0 else 0 for t, i in zip(trans_flux, incident_flux)]
S21(trans_flux, incident) ==
    [k \in 1..ZipLen(trans_flux, incident) |->
        IF incident[k] # 0 THEN Div(trans_flux[k], incident[k]) ELSE RatInt(0)]

\* [10 * np.log10(abs(s)) if s != 0 else -100 for s in sxx]
ToDb(sxx) ==
    [k \in 1..Len(sxx) |-> IF sxx[k][1] # 0 THEN TenLog10Abs(sxx[k]) ELSE Sentinel]

\* complex(e).real
RealPart(e) == e[1]

\* The value of a decibel entry is at most 0.
DbLeqZero(d) ==
    IF d.tag = "const" THEN d.arg[1] <= 0 ELSE d.arg[1] <= d.arg[2]

\* ----------------------------------------------------------------- state
NoSim ==
    [status |-> "none", time |-> 0, args |-> Nothing, monitors |-> Nothing,
     until |-> Nothing]

\* mp.stop_when_fields_decayed(50, mp.Ez, mp.Vector3(0, 0, bridge_t/2), 1e-6):
\* the one stopping condition both sim.run calls pass (no time ceiling).
stop_when_fields_decayed(c) ==
    [ dt |-> DECAY_DT, component |-> "Ez", pt |-> <<0, 0, Half(c.bridge_t)>>,
      decay_by |-> <<1, DECAY_BY_INV>> ]

Init ==
    /\ pc = "start"
    /\ cfg \in Configs
    /\ stub \in Stubs(cfg)
    /\ refSim = NoSim
    /\ mainSim = NoSim
    /\ freqs = <<>>
    /\ incident_flux = <<>>
    /\ refl_data = Nothing
    /\ field_data = [t |-> <<>>, ez_gap |-> <<>>]
    /\ fluxes = [refl |-> <<>>, trans |-> <<>>]
    /\ calc = Nothing
    /\ archive = Nothing
    /\ sample = Nothing

\* ---------------------------------------------------------- run_reference
\* create_simulation(cfg); sim.geometry = []; refl_fr = sim.add_flux(...)
RefCreate ==
    /\ pc = "start"
    /\ LET cs == create_simulation(cfg)
       IN  refSim' = [ status   |-> "built",
                       time     |-> 0,
                       args     |-> Some([cs EXCEPT !.geometry = <<>>]),
                       monitors |-> Some([refl_fr |->
                                     reference_monitor(cfg, cs.fcen, cs.fwidth)]),
                       until    |-> Nothing ]
    /\ pc' = "ref_built"
    /\ UNCHANGED <<cfg, stub, mainSim, freqs, incident_flux, refl_data,
                   field_data, fluxes, calc, archive, sample>>

\* sim.run(until_after_sources=stop_when_fields_decayed(...)) is entered.
RefRunBegin ==
    /\ pc = "ref_built"
    /\ refSim' = [refSim EXCEPT !.status = "running",
                                 !.until = Some(stop_when_fields_decayed(cfg))]
    /\ pc' = "ref_running"
    /\ UNCHANGED <<cfg, stub, mainSim, freqs, incident_flux, refl_data,
                   field_data, fluxes, calc, archive, sample>>

\* One time unit of the reference run.  The run ends only when the decay
\* criterion triggers; the call passes no other stopping condition.
RefRunStep ==
    /\ pc = "ref_running"
    /\ refSim.time < MaxTime
    /\ LET t == refSim.time + 1
       IN  IF stub.refStop = t
           THEN /\ refSim' = [refSim EXCEPT
                      !.time = t, !.status = "stopped",
                      !.monitors = Some([refl_fr |-> [refSim.monitors[1].refl_fr
                                      EXCEPT !.dft = Some(FluxArray(stub.incident))]])]
                /\ pc' = "ref_stopped"
           ELSE /\ refSim' = [refSim EXCEPT !.time = t]
                /\ pc' = pc
    /\ UNCHANGED <<cfg, stub, mainSim, freqs, incident_flux, refl_data,
                   field_data, fluxes, calc, archive, sample>>

\* incident_flux = mp.get_fluxes(refl_fr); freqs = mp.get_flux_freqs(refl_fr)
RefExtract ==
    /\ pc = "ref_stopped"
    /\ incident_flux' = get_fluxes(refSim.monitors[1].refl_fr)
    /\ freqs' = get_flux_freqs(refSim.monitors[1].refl_fr, stub.incident.len)
    /\ pc' = "ref_extracted"
    /\ UNCHANGED <<cfg, stub, refSim, mainSim, refl_data,
                   field_data, fluxes, calc, archive, sample>>

\* sim.reset_meep(): the fields, and the monitor data they own, are freed.
RefReset ==
    /\ pc = "ref_extracted"
    /\ refSim' = [refSim EXCEPT !.status = "reset"]
    /\ pc' = "ref_reset"
    /\ UNCHANGED <<cfg, stub, mainSim, freqs, incident_flux, refl_data,
                   field_data, fluxes, calc, archive, sample>>

\* return freqs, incident_flux, sim.get_flux_data(refl_fr): the monitor is
\* read after reset_meep freed it.  The read may still find the accumulated
\* state, may find other content, or may fault.
RefReturn ==
    /\ pc = "ref_reset"
    /\ LET live == refSim.monitors[1].refl_fr.dft[1]
       IN  \/ /\ refl_data' = Some(live)
              /\ pc' = "ref_returned"
           \/ /\ refl_data' = Some(Zeroed(live))
              /\ pc' = "ref_returned"
           \/ /\ refl_data' = refl_data
              /\ pc' = "crashed"
    /\ UNCHANGED <<cfg, stub, refSim, mainSim, freqs, incident_flux,
                   field_data, fluxes, calc, archive, sample>>

\* ---------------------------------------------------------- run_simulation
\* sim, fcen, fwidth = create_simulation(cfg); monitors = setup_monitors(...)
MainCreate ==
    /\ pc = "ref_returned"
    /\ LET cs == create_simulation(cfg)
       IN  mainSim' = [ status   |-> "built",
                        time     |-> 0,
                        args     |-> Some(cs),
                        monitors |-> Some(setup_monitors(cfg, cs.fcen, cs.fwidth)),
                        until    |-> Nothing ]
    /\ pc' = "main_built"
    /\ UNCHANGED <<cfg, stub, refSim, freqs, incident_flux, refl_data,
                   field_data, fluxes, calc, archive, sample>>

\* sim.load_minus_flux_data(monitors["refl"], refl_data)
LoadMinusFlux ==
    /\ pc = "main_built"
    /\ mainSim' = [mainSim EXCEPT !.monitors =
                     Some(load_minus_flux_data(mainSim.monitors[1], "refl", refl_data[1]))]
    /\ pc' = "main_loaded"
    /\ UNCHANGED <<cfg, stub, refSim, freqs, incident_flux, refl_data,
                   field_data, fluxes, calc, archive, sample>>

\* field_data = {"t": [], "ez_gap": []}; sim.run(at_every(1, capture_field), ...)
\* is entered.
MainRunBegin ==
    /\ pc = "main_loaded"
    /\ field_data' = [t |-> <<>>, ez_gap |-> <<>>]
    /\ mainSim' = [mainSim EXCEPT !.status = "running",
                                   !.until = Some(stop_when_fields_decayed(cfg))]
    /\ pc' = "main_running"
    /\ UNCHANGED <<cfg, stub, refSim, freqs, incident_flux, refl_data,
                   fluxes, calc, archive, sample>>

\* Faulty variant of capture_field: the time appended is not the solver's time.
capture_field_stale_time(fd, t) ==
    [ t      |-> Append(fd.t, 0),
      ez_gap |-> Append(fd.ez_gap, get_field_point(t)) ]

\* capture_field(sim): one time and one field value are appended.
capture_field(fd, t) ==
    [ t      |-> Append(fd.t, t),
      ez_gap |-> Append(fd.ez_gap, get_field_point(t)) ]

\* One time unit of the main run: at_every(1, capture_field) fires, then the
\* decay criterion is the only thing that can end the run.
MainRunStep ==
    /\ pc = "main_running"
    /\ mainSim.time < MaxTime
    /\ LET t == mainSim.time + 1
       IN  /\ field_data' = capture_field(field_data, t)
           /\ IF stub.mainStop = t
              THEN /\ mainSim' = [mainSim EXCEPT
                         !.time = t, !.status = "stopped",
                         !.monitors = Some([mainSim.monitors[1] EXCEPT
                              !.refl.dft = Some(FluxArray(stub.refl)),
                              !.trans.dft = Some(FluxArray(stub.trans))])]
                   /\ pc' = "main_stopped"
              ELSE /\ mainSim' = [mainSim EXCEPT !.time = t]
                   /\ pc' = pc
    /\ UNCHANGED <<cfg, stub, refSim, freqs, incident_flux, refl_data,
                   fluxes, calc, archive, sample>>

\* refl_flux = mp.get_fluxes(monitors["refl"]); trans_flux = ...(monitors["trans"])
MainExtract ==
    /\ pc = "main_stopped"
    /\ fluxes' = [ refl  |-> get_fluxes(mainSim.monitors[1].refl),
                   trans |-> get_fluxes(mainSim.monitors[1].trans) ]
    /\ pc' = "extracted"
    /\ UNCHANGED <<cfg, stub, refSim, mainSim, freqs, incident_flux, refl_data,
                   field_data, calc, archive, sample>>

\* The S-parameter lists and the results mapping.
SParams(fr, inc, refl_flux, trans_flux, fd) ==
    LET freqs_ghz == [k \in 1..Len(fr) |-> meep_to_ghz(fr[k])]
        s11 == S11(refl_flux, inc)
        s11_db == ToDb(s11)
        s21 == S21(trans_flux, inc)
        s21_db == ToDb(s21)
    IN  [ s11 |-> s11, s21 |-> s21,
          results |-> [ freqs_ghz |-> freqs_ghz,
                        s11_db    |-> s11_db,
                        s21_db    |-> s21_db,
                        field_t   |-> fd.t,
                        field_ez  |-> [k \in 1..Len(fd.ez_gap) |->
                                          RealPart(fd.ez_gap[k])] ] ]

ComputeSParams ==
    /\ pc = "extracted"
    /\ calc' = Some(SParams(freqs, incident_flux, fluxes.refl, fluxes.trans, field_data))
    /\ pc' = "computed"
    /\ UNCHANGED <<cfg, stub, refSim, mainSim, freqs, incident_flux, refl_data,
                   field_data, fluxes, archive, sample>>

\* np.savez(f"{output_dir}/results.npz", **results)
SaveResults ==
    /\ pc = "computed"
    /\ archive' = Some(calc[1].results)
    /\ pc' = "done"
    /\ UNCHANGED <<cfg, stub, refSim, mainSim, freqs, incident_flux, refl_data,
                   field_data, fluxes, calc, sample>>

Next ==
    \/ RefCreate
    \/ RefRunBegin
    \/ RefRunStep
    \/ RefExtract
    \/ RefReset
    \/ RefReturn
    \/ MainCreate
    \/ LoadMinusFlux
    \/ MainRunBegin
    \/ MainRunStep
    \/ MainExtract
    \/ ComputeSParams
    \/ SaveResults

Spec == Init /\ [][Next]_vars

\* ------------------------------------------------- geometry compositing
\* The two scripts' geometry lists.
GeometryOf(variant, c) ==
    IF variant = "generated" THEN build_geometry_meep ELSE build_geometry(c)

\* Configurations with positive extents whose geometry is probed.
GeomConfigs ==
    { DefaultCfg,
      [DefaultCfg EXCEPT !.wall_thickness = 1000],
      [DefaultCfg EXCEPT !.substrate_h = 4800],
      [DefaultCfg EXCEPT !.gap = 5000] }

\* Sample points: on, inside and outside the faces of the primitives.
GridXY == {-13000, 0, 3000, 13000, 14000, 15000, 16000}
GridZ == {-9650, -9600, -5000, -4850, -4800, -50, 0, 25, 50, 125, 250, 500,
          625, 750, 4800, 5000, 5050}

GeomInit ==
    /\ pc = "geometry"
    /\ cfg \in GeomConfigs
    /\ stub = [ refStop |-> 1, mainStop |-> 1, incident |-> Pattern(NFREQ, 1, 1),
                refl |-> Pattern(NFREQ, 0, 0), trans |-> Pattern(NFREQ, 1, 1) ]
    /\ refSim = NoSim
    /\ mainSim = NoSim
    /\ freqs = <<>>
    /\ incident_flux = <<>>
    /\ refl_data = Nothing
    /\ field_data = [t |-> <<>>, ez_gap |-> <<>>]
    /\ fluxes = [refl |-> <<>>, trans |-> <<>>]
    /\ calc = Nothing
    /\ archive = Nothing
    /\ sample = Nothing

\* The solver samples the material of one point of the geometry list.
SampleGeometry ==
    /\ pc = "geometry"
    /\ \E variant \in {"script", "generated"}, x \in GridXY, y \in GridXY, z \in GridZ :
         LET geometry == GeometryOf(variant, cfg)
             p == <<x, y, z>>
         IN  sample' = Some([ variant  |-> variant,
                              point    |-> p,
                              hits     |-> {i \in 1..Len(geometry) :
                                              Inside(p, geometry[i])},
                              material |-> MaterialAt(geometry, p) ])
    /\ pc' = "sampled"
    /\ UNCHANGED <<cfg, stub, refSim, mainSim, freqs, incident_flux, refl_data,
                   field_data, fluxes, calc, archive>>

GeomNext == SampleGeometry

GeomSpec == GeomInit /\ [][GeomNext]_vars

\* ------------------------------------------------------------------ claims
Started(sim) == sim.status \in {"running", "stopped", "reset"}

Finished(sim) == sim.status \in {"stopped", "reset"}

\* C1: the two solver runs are strictly sequential.  Whenever the main
\* simulation exists the reference run has finished, the two never run at
\* the same time, and from the moment the main run is entered (so before its
\* first time step) the reflection monitor holds the negative of the flux
\* state run_reference returned while the transmission monitor holds nothing.
C1_SequentialRuns ==
    /\ mainSim.status # "none" => Finished(refSim) /\ refSim.time = stub.refStop
    /\ ~(refSim.status = "running" /\ mainSim.status = "running")
    /\ Started(mainSim) =>
          /\ mainSim.monitors[1].refl.minus = Some(Negate(refl_data[1]))
          /\ mainSim.monitors[1].trans.minus = Nothing

\* The main run has taken its first time step with a non-zero flux state loaded.
C1_Witness ==
    /\ mainSim.status = "running"
    /\ mainSim.time = 1
    /\ \E k \in 1..Len(refl_data[1]) : refl_data[1][k] # 0

\* C2: per bin k of the computed lists, an incident flux of 0 gives
\* S11 = S21 = 0 and the sentinel -100 for both dB values whatever the
\* reflected and transmitted flux are; a non-zero incident flux gives the
\* ratios -R/I and T/I of that bin alone; no division by zero and no
\* logarithm of zero is evaluated.
C2_SentinelPerBin ==
    calc # Nothing =>
      LET c == calc[1]
          I == incident_flux
          R == fluxes.refl
          T == fluxes.trans
      IN  /\ Len(c.s11) = Min(Len(R), Len(I))
          /\ Len(c.s21) = Min(Len(T), Len(I))
          /\ Len(c.results.s11_db) = Len(c.s11)
          /\ Len(c.results.s21_db) = Len(c.s21)
          /\ \A k \in 1..Len(c.s11) :
                /\ c.s11[k] # ZeroDivisionError
                /\ I[k] = 0 => c.s11[k] = RatInt(0) /\ c.results.s11_db[k] = Sentinel
                /\ I[k] # 0 => c.s11[k] = Rat(-R[k], I[k])
                /\ (I[k] # 0 /\ R[k] # 0) =>
                      c.results.s11_db[k] =
                         [tag |-> "10log10", arg |-> Rat(Abs(R[k]), Abs(I[k]))]
                /\ c.results.s11_db[k].tag = "10log10" =>
                      c.results.s11_db[k].arg[1] > 0
          /\ \A k \in 1..Len(c.s21) :
                /\ c.s21[k] # ZeroDivisionError
                /\ I[k] = 0 => c.s21[k] = RatInt(0) /\ c.results.s21_db[k] = Sentinel
                /\ I[k] # 0 => c.s21[k] = Rat(T[k], I[k])
                /\ (I[k] # 0 /\ T[k] # 0) =>
                      c.results.s21_db[k] =
                         [tag |-> "10log10", arg |-> Rat(Abs(T[k]), Abs(I[k]))]
                /\ c.results.s21_db[k].tag = "10log10" =>
                      c.results.s21_db[k].arg[1] > 0

\* Incident 0 next to incident 2, with non-zero reflected and transmitted
\* flux in the zero bin: sentinel in bin 1, ratio-derived value in bin 2.
C2_Witness ==
    /\ calc # Nothing
    /\ incident_flux[1] = 0 /\ incident_flux[2] = 2
    /\ fluxes.refl[1] = 1 /\ fluxes.trans[1] = 1
    /\ fluxes.refl[2] = 2 /\ fluxes.trans[2] = 2
    /\ calc[1].results.s11_db[1] = Sentinel
    /\ calc[1].results.s11_db[2] = [tag |-> "10log10", arg |-> <<1, 1>>]
    /\ calc[1].results.s21_db[1] = Sentinel
    /\ calc[1].results.s21_db[2] = [tag |-> "10log10", arg |-> <<1, 1>>]

\* C3: when the incident array and the reflected or transmitted array differ
\* in length, the computation fails before any per-bin arithmetic: no
\* S-parameter list is computed and no archive is written.
GridMismatch ==
    \/ Len(fluxes.refl) # Len(incident_flux)
    \/ Len(fluxes.trans) # Len(incident_flux)

C3_GridMismatchFails ==
    (pc \in {"extracted", "computed", "done"} /\ GridMismatch) =>
        calc = Nothing /\ archive = Nothing

\* C4: a solver run whose decay criterion has not triggered stops at the
\* maximum-time ceiling: no run is still going past the ceiling.
TimeCeiling == MaxTime - 1

C4_RunStopsAtCeiling ==
    /\ refSim.status = "running" => refSim.time <= TimeCeiling
    /\ mainSim.status = "running" => mainSim.time <= TimeCeiling

\* C5: the reference and the main simulation are built with the same cell
\* size, PML thickness, resolution and source; the reference monitor has the
\* center, extent, frequency center, frequency width and bin count (50) of
\* the main reflection monitor; they differ only in the geometry list (empty
\* in the reference run) and in the main run's extra transmission monitor.
C5_ReferenceMainConsistent ==
    mainSim.status # "none" =>
      LET r == refSim.args[1]
          m == mainSim.args[1]
          rm == refSim.monitors[1].refl_fr
          mm == mainSim.monitors[1].refl
      IN  /\ r.cell_size = m.cell_size
          /\ r.pml_thickness = m.pml_thickness
          /\ r.resolution = m.resolution
          /\ r.sources = m.sources
          /\ r.default_material = m.default_material
          /\ rm.center = mm.center
          /\ rm.size = mm.size
          /\ rm.fcen = mm.fcen
          /\ rm.fwidth = mm.fwidth
          /\ rm.nfreq = NFREQ /\ mm.nfreq = NFREQ
          /\ r.geometry = <<>>
          /\ m.geometry = build_geometry(cfg)
          /\ DOMAIN refSim.monitors[1] = {"refl_fr"}
          /\ DOMAIN mainSim.monitors[1] = {"refl", "trans"}

\* Both simulations exist for a configuration other than the default one.
C5_Witness ==
    /\ mainSim.status = "built"
    /\ refSim.status = "reset"
    /\ cfg.gap = 5000

\* C6: in the geometry list the inner air cylinder comes after the outer
\* dielectric cylinder that contains it, and every sample point inside both
\* cylinders composites to air.
OuterIndex(geometry) ==
    CHOOSE i \in 1..Len(geometry) :
        geometry[i].kind = "Cylinder" /\ geometry[i].material = fr4

InnerIndex(geometry) ==
    CHOOSE i \in 1..Len(geometry) :
        geometry[i].kind = "Cylinder" /\ geometry[i].material = air

C6_CutoutAfterSolid ==
    sample # Nothing =>
      LET geometry == GeometryOf(sample[1].variant, cfg)
          outer == OuterIndex(geometry)
          inner == InnerIndex(geometry)
      IN  /\ geometry[outer].material = fr4
          /\ geometry[inner].material = air
          /\ geometry[inner].center = geometry[outer].center
          /\ geometry[inner].radius < geometry[outer].radius
          /\ outer < inner
          /\ (outer \in sample[1].hits /\ inner \in sample[1].hits) =>
                sample[1].material = air

\* A point of the hand-written script's geometry inside both cylinders.
C6_Witness ==
    /\ sample # Nothing
    /\ sample[1].variant = "script"
    /\ {4, 5} \subseteq sample[1].hits
    /\ sample[1].point[1] # 0

\* C7: a configuration with a zero or negative extent fails with
\* InvalidGeometry before the reference run or the main run is started.
NonPositiveExtent(g) ==
    IF g.kind = "Block"
    THEN \E i \in 1..3 : g.size[i] <= 0
    ELSE g.radius <= 0 \/ g.height <= 0

InvalidGeometry(c) ==
    \E i \in 1..Len(build_geometry(c)) : NonPositiveExtent(build_geometry(c)[i])

C7_InvalidGeometryAborts ==
    InvalidGeometry(cfg) => ~Started(refSim) /\ ~Started(mainSim)

\* C8: the internal frequency of the source equals f * 1e9 * 1e-6 / c for the
\* configured center frequency f in GHz, with a 1 um length unit (stated to
\* within 1 percent, so that rounding c to 3e8 is not what is measured).
\*   | n/d - 1000 f / c | <= (1/100) * 1000 f / c
WithinOnePercentOfUm(internal, f_ghz) ==
    LET lhs == internal[1] * C_LIGHT * f_ghz[2] - 1000 * f_ghz[1] * internal[2]
    IN  Abs(lhs) <= 10 * f_ghz[1] * internal[2]

C8_FrequencyNormalization ==
    refSim.status # "none" =>
      /\ WithinOnePercentOfUm(refSim.args[1].sources[1].fcen, cfg.freq_center_ghz)
      /\ WithinOnePercentOfUm(refSim.monitors[1].refl_fr.fcen, cfg.freq_center_ghz)

\* C9 as stated: with 50-bin flux arrays the dB lists have length 50 and,
\* when in every bin R <= I and T <= I, every dB entry is <= 0.
FiftyBins ==
    /\ Len(incident_flux) = NFREQ
    /\ Len(fluxes.refl) = NFREQ
    /\ Len(fluxes.trans) = NFREQ

C9_SignedFluxBound ==
    (pc = "done" /\ FiftyBins
       /\ \A k \in 1..NFREQ : /\ fluxes.refl[k] <= incident_flux[k]
                              /\ fluxes.trans[k] <= incident_flux[k]) =>
      /\ Len(archive[1].s11_db) = NFREQ
      /\ Len(archive[1].s21_db) = NFREQ
      /\ \A k \in 1..NFREQ : /\ DbLeqZero(archive[1].s11_db[k])
                             /\ DbLeqZero(archive[1].s21_db[k])

\* C9 amended: the same with the fluxes compared in magnitude, |R| <= |I|
\* and |T| <= |I| in every bin.
C9_MagnitudeFluxBound ==
    (pc = "done" /\ FiftyBins
       /\ \A k \in 1..NFREQ : /\ Abs(fluxes.refl[k]) <= Abs(incident_flux[k])
                              /\ Abs(fluxes.trans[k]) <= Abs(incident_flux[k])) =>
      /\ Len(archive[1].s11_db) = NFREQ
      /\ Len(archive[1].s21_db) = NFREQ
      /\ \A k \in 1..NFREQ : /\ DbLeqZero(archive[1].s11_db[k])
                             /\ DbLeqZero(archive[1].s21_db[k])

\* A finished run on 50-bin arrays with |R| <= |I| and |T| <= |I| everywhere,
\* a sentinel bin (incident 0) and bins with a negative reflected flux and a
\* transmitted flux strictly below the incident one.
C9_Witness ==
    /\ pc = "done" /\ FiftyBins
    /\ \A k \in 1..NFREQ : /\ Abs(fluxes.refl[k]) <= Abs(incident_flux[k])
                           /\ Abs(fluxes.trans[k]) <= Abs(incident_flux[k])
    /\ incident_flux[1] = 2 /\ fluxes.refl[1] = -1 /\ fluxes.trans[1] = 1
    /\ incident_flux[2] = 0
    /\ archive[1].s11_db[2] = Sentinel
    /\ archive[1].s21_db[1] = [tag |-> "10log10", arg |-> <<1, 2>>]

\* C10: in every archive written the frequency grid, S11_dB and S21_dB have
\* one length, and the time grid and the field values have one length.
C10_ArchiveShape ==
    archive # Nothing =>
      /\ Len(archive[1].freqs_ghz) = Len(archive[1].s11_db)
      /\ Len(archive[1].freqs_ghz) = Len(archive[1].s21_db)
      /\ Len(archive[1].field_t) = Len(archive[1].field_ez)

\* The times of a sampled series are strictly increasing.
StrictlyIncreasing(ts) ==
    \A i \in 1..Len(ts) : \A j \in 1..Len(ts) : i < j => ts[i] < ts[j]

\* C11 as stated: field sampling accompanies the reference run too.  While
\* the reference run is the only run there is, the probe's sequence holds one
\* (time, value) pair per elapsed sampling step of that run.
C11_SamplingBothRuns ==
    /\ (Started(refSim) /\ mainSim.status = "none") =>
          /\ Len(field_data.t) = refSim.time
          /\ Len(field_data.ez_gap) = refSim.time
    /\ Started(mainSim) =>
          /\ Len(field_data.t) = mainSim.time
          /\ Len(field_data.ez_gap) = mainSim.time
          /\ StrictlyIncreasing(field_data.t)

\* C11 amended: field sampling accompanies the main run only.  Nothing is
\* appended to the probe's sequence before the main run is entered, however
\* many steps the reference run takes; from then on the sequence holds one
\* (time, value) pair per elapsed time unit of the main run, the k-th pair
\* being time k and the field value read at time k, with strictly increasing
\* times, whatever the flux monitors accumulate or report.
C11_MainRunSampling ==
    /\ ~Started(mainSim) => field_data = [t |-> <<>>, ez_gap |-> <<>>]
    /\ Started(mainSim) =>
          /\ Len(field_data.t) = mainSim.time
          /\ Len(field_data.ez_gap) = mainSim.time
          /\ \A k \in 1..Len(field_data.t) :
                /\ field_data.t[k] = k
                /\ field_data.ez_gap[k] = get_field_point(k)
          /\ StrictlyIncreasing(field_data.t)

\* The main run has sampled three times after a reference run of two time
\* units, with monitors that report fewer bins than requested.
C11_Witness ==
    /\ pc = "main_stopped"
    /\ refSim.time = 2
    /\ field_data.t = <<1, 2, 3>>
    /\ stub.refl.len = NFREQ - 1

\* C12: the flux state run_reference hands to the main run is the reference
\* monitor's accumulated state as it stood when the reference run stopped: it
\* has been captured by the time the reference simulation is reset, the call
\* returns, and what the main run negates into its reflection monitor is that
\* state unchanged.
C12_HandoffCapturedLive ==
    /\ refSim.status = "reset" => refl_data # Nothing
    /\ pc # "crashed"
    /\ refl_data # Nothing =>
          refl_data[1] = refSim.monitors[1].refl_fr.dft[1]
    /\ Started(mainSim) =>
          mainSim.monitors[1].refl.minus =
             Some(Negate(refSim.monitors[1].refl_fr.dft[1]))

\* C13: the tube cut-out does not eat the metal.  Every sample point that
\* lies inside a copper pad or inside the bridge block composites to copper:
\* neither the dielectric cylinder nor the air cylinder, both appended after
\* the metal, overwrites it.
C13_CutoutSparesMetal ==
    sample # Nothing =>
      LET geometry == GeometryOf(sample[1].variant, cfg)
      IN  (\E i \in sample[1].hits : geometry[i].material = copper) =>
             sample[1].material = copper

=============================================================================
